---- MODULE Spec2Model ----
(***************************************************************************)
(* Model of the Dox2 PDF viewer session (src/Dox2/src/pdf_reader.py,       *)
(* class PDFReader) and of the page renderer it calls                      *)
(* (src/Dox2/src/utils.py, render_page_with_fallback).                     *)
(*                                                                         *)
(* Representation choices:                                                 *)
(*  - zoom_factor is held in hundredths (1.0 = 100, step 0.2 = 20), the    *)
(*    unit of the zoom entry field; binary floating-point rounding of the  *)
(*    repeated "+ 0.2" is not modelled.                                    *)
(*  - the scroll position of the canvas is the pixel row ytop shown at the *)
(*    top of the viewport; canvas.yview() is (ytop, ytop + height) over    *)
(*    the scroll region height, so view_center is kept as twice its value  *)
(*    (ViewCenter2) to stay in the integers.                               *)
(*  - a text entry is a sequence of one-character strings.                 *)
(*  - int(zoom_factor * 100), the percentage the program displays, is      *)
(*    tabulated for the factors value / 100.0 an entry produces.           *)
(*  - a file is a descriptor in the file system fs; a page of a file       *)
(*    carries what the PDF library would answer for it.                    *)
(***************************************************************************)
EXTENDS Integers, Sequences, FiniteSets, TLC

VARIABLES
    doc,                    \* self.doc: NoDoc or an open handle [file, auth]
    current_page,           \* self.current_page
    total_pages,            \* self.total_pages
    zoom_factor,            \* self.zoom_factor, in hundredths
    page_images,            \* self.page_images: page -> rendered bitmap
    page_positions,         \* self.page_positions: page -> y offset
    links_on_page,          \* self.links_on_page: page -> extracted links
    pending_filepath,       \* self.pending_filepath
    password_attempt_count, \* self.password_attempt_count
    prompt,                 \* TRUE while show_password_dialog is waiting
    scrollregion,           \* canvas scrollregion [set, w, h]
    ytop,                   \* canvas scroll position (pixel row at the top)
    canvas,                 \* canvas widget size [w, h]
    zoom_input,             \* text shown in the zoom entry field
    page_label,             \* text shown in the page entry field
    fs,                     \* the files the user can pick (never changes)
    loads,                  \* number of load_pdf calls so far
    running_y,              \* history: y_position at the end of the last completed layout pass
    last,                   \* history: the operation that ran last
    workspaces,             \* WorkspaceTabs.workspaces: tab id -> [module_type, file]
    workspace_tabs,         \* WorkspaceTabs.workspace_tabs: the tab ids in order
    current_tab_id,         \* WorkspaceTabs.current_tab_id: a tab id or NoTab
    tab_counter             \* WorkspaceTabs.tab_counter

vars == << doc, current_page, total_pages, zoom_factor, page_images,
           page_positions, links_on_page, pending_filepath,
           password_attempt_count, prompt, scrollregion, ytop, canvas,
           zoom_input, page_label, fs, loads, running_y, last,
           workspaces, workspace_tabs, current_tab_id, tab_counter >>

\* The fields of the viewer in a tab, and those of the tab manager.
readerVars == << doc, current_page, total_pages, zoom_factor, page_images,
                 page_positions, links_on_page, pending_filepath,
                 password_attempt_count, prompt, scrollregion, ytop, canvas,
                 zoom_input, page_label, loads, running_y, last >>

tabVars == << workspaces, workspace_tabs, current_tab_id, tab_counter >>

None == "None"

EmptyMap == [x \in {} |-> None]

\* self.doc = None
NoDoc == [file |-> None, auth |-> FALSE]

\* The canvas option scrollregion before it is ever configured.
NoRegion == [set |-> FALSE, w |-> 0, h |-> 0]

NoImage == [w |-> 0, h |-> 0, file |-> None, zoom |-> 0]

Max2(a, b) == IF a >= b THEN a ELSE b

Min2(a, b) == IF a <= b THEN a ELSE b

CeilDiv(a, b) == (a + b - 1) \div b

-----------------------------------------------------------------------------
(* Program constants *)

min_zoom == 50

max_zoom == 300

DefaultZoom == 100

ZoomStep == 20

max_password_attempts == 20

TopMargin == 10

PageGap == 30

ScrollAmount == 3

FallbackCanvasWidth == 800

\* "if len(self.workspace_tabs) < 10" in _on_pdf_selected_from_file_manager
TabLimit == 10

-----------------------------------------------------------------------------
(* Bounds of the model *)

MaxPages == 3

\* Number of files a session opens.
MaxLoads == 2

MaxTextLen == 3

\* Number of tabs a workspace ever creates.
MaxTabIds == 10

\* Number of tabs that show a File Manager at the same time.
MaxFileManagers == 1

-----------------------------------------------------------------------------
(* Text entries and int() *)

Digits == {"4", "9"}

Chars == Digits \cup {"-", ".", "x"}

RECURSIVE TextsUpTo(_)
TextsUpTo(n) ==
    IF n = 0 THEN {<< >>}
    ELSE LET shorter == TextsUpTo(n - 1)
         IN  shorter \cup {Append(t, c) : t \in {s \in shorter : Len(s) = n - 1}, c \in Chars}

Texts == TextsUpTo(MaxTextLen)

\* The characters int() reads as digits, in order of their value.
DigitChars == <<"0", "1", "2", "3", "4", "5", "6", "7", "8", "9">>

DecimalDigits == {DigitChars[i] : i \in 1..Len(DigitChars)}

DigitVal(c) == (CHOOSE i \in 1..Len(DigitChars) : DigitChars[i] = c) - 1

RECURSIVE DigitsValue(_)
DigitsValue(s) ==
    IF Len(s) = 0 THEN 0
    ELSE 10 * DigitsValue(SubSeq(s, 1, Len(s) - 1)) + DigitVal(s[Len(s)])

AllDigits(s) == \A i \in 1..Len(s) : s[i] \in DecimalDigits

\* str(n) of an integer.
RECURSIVE StrNat(_)
StrNat(n) ==
    IF n < 10 THEN << DigitChars[n + 1] >>
    ELSE Append(StrNat(n \div 10), DigitChars[(n % 10) + 1])

Str(n) == IF n < 0 THEN << "-" >> \o StrNat(0 - n) ELSE StrNat(n)

\* Python int(text): an optional sign followed by at least one digit;
\* anything else raises ValueError (ok = FALSE).
ParseInt(t) ==
    LET neg  == Len(t) > 0 /\ t[1] = "-"
        body == IF neg THEN Tail(t) ELSE t
    IN  IF Len(body) > 0 /\ AllDigits(body)
        THEN [ok |-> TRUE, val |-> IF neg THEN 0 - DigitsValue(body) ELSE DigitsValue(body)]
        ELSE [ok |-> FALSE, val |-> 0]

\* What a text asks for, read as an ordinary decimal number num / den
\* (history only: the program never computes this).
DotCount(t) == Cardinality({i \in 1..Len(t) : t[i] = "."})

Unsigned(t) == IF Len(t) > 0 /\ t[1] = "-" THEN Tail(t) ELSE t

IsNumber(t) ==
    LET u == Unsigned(t)
    IN  /\ \A i \in 1..Len(u) : u[i] \in DecimalDigits \cup {"."}
        /\ DotCount(u) <= 1
        /\ \E i \in 1..Len(u) : u[i] \in DecimalDigits

DotAt(u) == IF DotCount(u) = 0 THEN Len(u) + 1 ELSE CHOOSE i \in 1..Len(u) : u[i] = "."

RECURSIVE Pow10(_)
Pow10(n) == IF n = 0 THEN 1 ELSE 10 * Pow10(n - 1)

NoRequest == [nan |-> TRUE, integer |-> FALSE, num |-> 0, den |-> 1]

Requested(t) ==
    IF ~IsNumber(t) THEN NoRequest
    ELSE LET u      == Unsigned(t)
             whole  == SubSeq(u, 1, DotAt(u) - 1)
             frac   == SubSeq(u, DotAt(u) + 1, Len(u))
             digits == DigitsValue(whole \o frac)
         IN  [nan |-> FALSE,
              integer |-> DotCount(u) = 0,
              num |-> IF u # t THEN 0 - digits ELSE digits,
              den |-> Pow10(Len(frac))]

-----------------------------------------------------------------------------
(* Files, pages and the PDF library *)

\* A page: access = doc[page_num] succeeds; ok[m] = rendering strategy m
\* yields a non-empty pixmap; w, h = page size in points.
PageA == [access |-> TRUE, ok |-> <<TRUE, TRUE, TRUE, TRUE>>, w |-> 20, h |-> 10, links |-> << >>]

PageB == [access |-> TRUE, ok |-> <<FALSE, TRUE, TRUE, TRUE>>, w |-> 30, h |-> 16, links |-> << >>]

PageNoRender == [access |-> TRUE, ok |-> <<FALSE, FALSE, FALSE, FALSE>>, w |-> 20, h |-> 10, links |-> << >>]

PageNoAccess == [access |-> FALSE, ok |-> <<FALSE, FALSE, FALSE, FALSE>>, w |-> 20, h |-> 10, links |-> << >>]

PageKinds == {PageA, PageB, PageNoRender, PageNoAccess}

RECURSIVE PageSeqs(_)
PageSeqs(n) ==
    IF n = 0 THEN {<< >>}
    ELSE LET shorter == PageSeqs(n - 1)
         IN  shorter \cup {Append(s, k) : s \in {q \in shorter : Len(q) = n - 1}, k \in PageKinds}

PlainFile(pages) == [kind |-> "plain", pages |-> pages, password |-> None]

\* The files of the session specification.
Catalog ==
    [f \in {"A", "B", "E"} |->
        CASE f = "A" -> PlainFile(<<PageA, PageNoRender, PageB>>)
          [] f = "B" -> PlainFile(<<PageNoAccess, PageB>>)
          [] f = "E" -> [kind |-> "encrypted", pages |-> <<PageB, PageA>>, password |-> "secret"]]

\* A file fitz.open cannot read.
CorruptFile == [kind |-> "corrupt", pages |-> << >>, password |-> None]

Passwords == {"secret", "wrong"}

\* doc[page_num]: raises on an unauthenticated handle, beyond the last page
\* and on a page object the library cannot load.
CanAccess(d, p) ==
    /\ d # NoDoc
    /\ d.auth
    /\ p >= 0
    /\ p < Len(fs[d.file].pages)
    /\ fs[d.file].pages[p + 1].access

PageOf(d, p) == fs[d.file].pages[p + 1]

\* Pixmap size for a strategy: strategy 1 uses Matrix(zoom * 2, zoom * 2),
\* the others Matrix(zoom, zoom).
Scale(m, z) == IF m = 1 THEN 2 * z ELSE z

Pixmap(pg, m, z) == [w |-> CeilDiv(pg.w * Scale(m, z), 100), h |-> CeilDiv(pg.h * Scale(m, z), 100)]

\* The bitmap handed back to the caller; file and zoom record what it was
\* rendered from (history, not read by the program).
Bitmap(d, pg, m, z) == [w |-> Pixmap(pg, m, z).w, h |-> Pixmap(pg, m, z).h, file |-> d.file, zoom |-> z]

\* One strategy of render_page_with_fallback: get_pixmap may raise, and an
\* empty pixmap (no samples) falls through to the next strategy.
StrategyWorks(pg, m, z) ==
    /\ pg.ok[m]
    /\ Pixmap(pg, m, z).w * Pixmap(pg, m, z).h > 0

RECURSIVE TryFrom(_, _, _, _)
TryFrom(d, pg, m, z) ==
    IF m > 4 THEN [img |-> NoImage, method |-> 0]
    ELSE IF StrategyWorks(pg, m, z) THEN [img |-> Bitmap(d, pg, m, z), method |-> m]
    ELSE TryFrom(d, pg, m + 1, z)

\* A variant that leaves out the high-resolution strategy.
render_page_standard_first(d, p, z) ==
    IF ~CanAccess(d, p) THEN [img |-> NoImage, method |-> 0]
    ELSE TryFrom(d, PageOf(d, p), 2, z)

render_page_with_fallback(d, p, z) ==
    IF ~CanAccess(d, p) THEN [img |-> NoImage, method |-> 0]
    ELSE TryFrom(d, PageOf(d, p), 1, z)

-----------------------------------------------------------------------------
(* render_current_page: link extraction, then the layout pass *)

\* The loop over _extract_links_for_page. A page already in links_on_page
\* is skipped; otherwise its entry is created and then doc[page_num] is
\* read outside any try, so an inaccessible page raises out of the loop.
RECURSIVE ExtractFrom(_, _, _, _)
ExtractFrom(d, tp, p, lk) ==
    IF p >= tp THEN [links |-> lk, raised |-> FALSE]
    ELSE IF p \in DOMAIN lk THEN ExtractFrom(d, tp, p + 1, lk)
    ELSE IF ~CanAccess(d, p)
         THEN [links |-> (p :> << >>) @@ lk, raised |-> TRUE]
         ELSE ExtractFrom(d, tp, p + 1, (p :> PageOf(d, p).links) @@ lk)

\* The loop with "total_height = y_position" taken before the gap is added.
RECURSIVE LayoutFromHeightBeforeGap(_, _, _, _, _)
LayoutFromHeightBeforeGap(d, tp, z, p, acc) ==
    IF p >= tp THEN acc
    ELSE LET r == render_page_with_fallback(d, p, z)
         IN  IF r.method = 0 THEN LayoutFromHeightBeforeGap(d, tp, z, p + 1, acc)
             ELSE LayoutFromHeightBeforeGap(d, tp, z, p + 1,
                    [y_position   |-> acc.y_position + r.img.h + PageGap,
                     total_height |-> acc.y_position + r.img.h,
                     img_width    |-> r.img.w,
                     images       |-> (p :> r.img) @@ acc.images,
                     positions    |-> (p :> acc.y_position) @@ acc.positions])

\* The loop with "y_position += img_height", the gap left out.
RECURSIVE LayoutFromNoGap(_, _, _, _, _)
LayoutFromNoGap(d, tp, z, p, acc) ==
    IF p >= tp THEN acc
    ELSE LET r == render_page_with_fallback(d, p, z)
         IN  IF r.method = 0 THEN LayoutFromNoGap(d, tp, z, p + 1, acc)
             ELSE LayoutFromNoGap(d, tp, z, p + 1,
                    [y_position   |-> acc.y_position + r.img.h,
                     total_height |-> acc.y_position + r.img.h,
                     img_width    |-> r.img.w,
                     images       |-> (p :> r.img) @@ acc.images,
                     positions    |-> (p :> acc.y_position) @@ acc.positions])

\* The "for page_num in pages_to_render" loop. acc carries y_position,
\* total_height, img_width and the two dictionaries.
RECURSIVE LayoutFrom(_, _, _, _, _)
LayoutFrom(d, tp, z, p, acc) ==
    IF p >= tp THEN acc
    ELSE LET r == render_page_with_fallback(d, p, z)
         IN  IF r.method = 0 THEN LayoutFrom(d, tp, z, p + 1, acc)
             ELSE LayoutFrom(d, tp, z, p + 1,
                    [y_position   |-> acc.y_position + r.img.h + PageGap,
                     total_height |-> acc.y_position + r.img.h + PageGap,
                     img_width    |-> r.img.w,
                     images       |-> (p :> r.img) @@ acc.images,
                     positions    |-> (p :> acc.y_position) @@ acc.positions])

LayoutStartAtZero == [y_position |-> 0, total_height |-> 0, img_width |-> 0,
                      images |-> EmptyMap, positions |-> EmptyMap]

\* A variant that starts the pass at the row the view is scrolled to.
LayoutStartAtScroll == [y_position |-> TopMargin + ytop, total_height |-> 0, img_width |-> 0,
                        images |-> EmptyMap, positions |-> EmptyMap]

LayoutStart == [y_position |-> TopMargin, total_height |-> 0, img_width |-> 0,
                images |-> EmptyMap, positions |-> EmptyMap]

CanvasWidth(cv) == IF cv.w < 2 THEN FallbackCanvasWidth ELSE cv.w

\* The canvas keeps its view inside the scroll region.
Confine(y, total, height) == Max2(0, Min2(y, total - height))

\* int(zoom_factor * 100) for zoom_factor = z / 100.0: the product falls
\* just below z for the values listed, and int() truncates it.
TruncatedPercents == {57, 58, 113, 114, 115, 116, 201, 203, 205, 207,
                      226, 228, 230, 232, 251, 253, 255}

ZoomPercent(z) == IF z \in TruncatedPercents THEN z - 1 ELSE z

\* "try: shown = int(field.get()) except ValueError: shown = -1; if shown
\* != value: field <- str(value)": the text of an entry field after the
\* refresh at the end of render_current_page.
Refreshed(text, value) ==
    IF ParseInt(text).ok /\ ParseInt(text).val = value THEN text ELSE Str(value)

\* cur = [images, positions, links, sr, ytop, running_y, zoom_input,
\* page_label, current_page] are the values the fields have when
\* render_current_page is entered; the result gives their values when it
\* returns or raises, and pass says how it ended.
render_current_page(d, tp, z, cur, cv) ==
    IF d = NoDoc \/ tp = 0 THEN [cur EXCEPT !.pass = "skipped"]
    ELSE LET ex == ExtractFrom(d, tp, 0, cur.links)
         IN  IF ex.raised THEN [cur EXCEPT !.pass = "aborted", !.links = ex.links]
             ELSE LET lay == LayoutFrom(d, tp, z, 0, LayoutStart)
                  IN  [pass         |-> "completed",
                       images       |-> lay.images,
                       positions    |-> lay.positions,
                       links        |-> ex.links,
                       sr           |-> [set |-> TRUE, w |-> Max2(lay.img_width, CanvasWidth(cv)), h |-> lay.total_height],
                       ytop         |-> Confine(cur.ytop, lay.total_height, cv.h),
                       running_y    |-> lay.y_position,
                       zoom_input   |-> Refreshed(cur.zoom_input, ZoomPercent(z)),
                       page_label   |-> Refreshed(cur.page_label, cur.current_page + 1),
                       current_page |-> cur.current_page]

Current == [pass |-> "none", images |-> page_images, positions |-> page_positions,
            links |-> links_on_page, sr |-> scrollregion, ytop |-> ytop,
            running_y |-> running_y, zoom_input |-> zoom_input,
            page_label |-> page_label, current_page |-> current_page]

Cleared == [Current EXCEPT !.images = EmptyMap, !.positions = EmptyMap]

\* Writes the fields render_current_page leaves behind.
Rendered(r) ==
    /\ page_images' = r.images
    /\ page_positions' = r.positions
    /\ links_on_page' = r.links
    /\ scrollregion' = r.sr
    /\ running_y' = r.running_y
    /\ zoom_input' = r.zoom_input
    /\ page_label' = r.page_label

-----------------------------------------------------------------------------
(* The viewport tracker *)

\* canvas.yview() times total_height, twice the centre of the view: an
\* empty scroll region reports the fractions (0, 1).
ViewCenter2(y, total, height) ==
    IF total <= 0 THEN total
    ELSE y + Min2(y + height, total)

\* Variants of the loop: one that stops at the first page it accepts, one
\* with the comparison turned round.
RECURSIVE ScanPagesFirstHit(_, _, _, _)
ScanPagesFirstHit(pos, keys, c2, found) ==
    IF keys = {} THEN found
    ELSE LET k == CHOOSE x \in keys : \A o \in keys : x <= o
         IN  IF 2 * pos[k] <= c2 THEN k
             ELSE ScanPagesFirstHit(pos, keys \ {k}, c2, found)

RECURSIVE ScanPagesInverted(_, _, _, _)
ScanPagesInverted(pos, keys, c2, found) ==
    IF keys = {} THEN found
    ELSE LET k == CHOOSE x \in keys : \A o \in keys : x <= o
         IN  IF 2 * pos[k] >= c2 THEN ScanPagesInverted(pos, keys \ {k}, c2, k)
             ELSE found

\* The loop of _update_page_indicator over sorted(page_positions.keys()).
RECURSIVE ScanPages(_, _, _, _)
ScanPages(pos, keys, c2, found) ==
    IF keys = {} THEN found
    ELSE LET k == CHOOSE x \in keys : \A o \in keys : x <= o
         IN  IF 2 * pos[k] <= c2 THEN ScanPages(pos, keys \ {k}, c2, k)
             ELSE found

\* A variant that reports the rank of the page among the laid-out pages.
PageAtViewportByRank(pos, c2) ==
    Max2(0, Cardinality({p \in DOMAIN pos : 2 * pos[p] <= c2}) - 1)

PageAtViewport(pos, c2) == ScanPages(pos, DOMAIN pos, c2, 0)

\* _update_page_indicator at scroll position y: the page it stores in
\* current_page, or current_page itself when it returns early.
IndicatorReturnsEarly == doc = NoDoc \/ DOMAIN page_positions = {} \/ ~scrollregion.set

UpdatePageIndicator(y) ==
    IF IndicatorReturnsEarly THEN current_page
    ELSE PageAtViewport(page_positions, ViewCenter2(y, scrollregion.h, canvas.h))

-----------------------------------------------------------------------------
(* The workspace tab manager (src/Dox2/src/workspace_tabs.py) *)

\* current_tab_id = None
NoTab == -1

Workspace(module_type, file) == [module_type |-> module_type, file |-> file]

\* WorkspaceTabs.__init__: the first tab, a PDF Reader, is created and
\* selected.
TabsConstructed ==
    /\ workspaces = (0 :> Workspace("PDF Reader", None))
    /\ workspace_tabs = << 0 >>
    /\ current_tab_id = 0
    /\ tab_counter = 1

ModuleTypes == {"PDF Reader", "File Manager"}

TabIds == 0..(MaxTabIds - 1)

\* list.remove(x): the list without the first occurrence of x.
RemoveFirst(seq, x) ==
    LET i == CHOOSE k \in 1..Len(seq) : seq[k] = x /\ \A j \in 1..(k - 1) : seq[j] # x
    IN  SubSeq(seq, 1, i - 1) \o SubSeq(seq, i + 1, Len(seq))

Occurs(seq, x) == \E k \in 1..Len(seq) : seq[k] = x

\* current_tab_id after _switch_to_workspace(tab_id) over the table ws.
SwitchedTo(ws, tab_id) == IF tab_id \in DOMAIN ws THEN tab_id ELSE current_tab_id

\* _add_workspace(module_type), followed by load_pdf(file) on the new
\* module when file is given.
AddWorkspaceThen(module_type, file) ==
    /\ tab_counter < MaxTabIds
    /\ workspaces' = (tab_counter :> Workspace(module_type, file)) @@ workspaces
    /\ workspace_tabs' = Append(workspace_tabs, tab_counter)
    /\ tab_counter' = tab_counter + 1
    /\ current_tab_id' = SwitchedTo(workspaces', tab_counter)

\* The "+ New Tab" button.
AddWorkspace ==
    /\ AddWorkspaceThen("PDF Reader", None)
    /\ UNCHANGED << readerVars, fs >>

\* A tab button: _switch_to_workspace(tab_id).
SwitchToWorkspace(tab_id) ==
    /\ current_tab_id' = SwitchedTo(workspaces, tab_id)
    /\ UNCHANGED << workspaces, workspace_tabs, tab_counter, readerVars, fs >>

\* A variant of _close_workspace that leaves current_tab_id as it is.
CloseWorkspaceKeepsCurrent(tab_id) ==
    /\ IF tab_id \notin DOMAIN workspaces \/ ~Occurs(workspace_tabs, tab_id)
       THEN UNCHANGED << workspaces, workspace_tabs, current_tab_id >>
       ELSE /\ workspace_tabs' = RemoveFirst(workspace_tabs, tab_id)
            /\ workspaces' = [t \in DOMAIN workspaces \ {tab_id} |-> workspaces[t]]
            /\ UNCHANGED current_tab_id
    /\ UNCHANGED << tab_counter, readerVars, fs >>

\* A close button: _close_workspace(tab_id). list.remove raises when the id
\* is not in the list, before anything is removed.
CloseWorkspace(tab_id) ==
    /\ IF tab_id \notin DOMAIN workspaces \/ ~Occurs(workspace_tabs, tab_id)
       THEN UNCHANGED << workspaces, workspace_tabs, current_tab_id >>
       ELSE /\ workspace_tabs' = RemoveFirst(workspace_tabs, tab_id)
            /\ workspaces' = [t \in DOMAIN workspaces \ {tab_id} |-> workspaces[t]]
            /\ current_tab_id' =
                  IF current_tab_id # tab_id THEN current_tab_id
                  ELSE IF Len(workspace_tabs') > 0
                       THEN SwitchedTo(workspaces', workspace_tabs'[1])
                       ELSE NoTab
    /\ UNCHANGED << tab_counter, readerVars, fs >>

FileManagers == {t \in DOMAIN workspaces : workspaces[t].module_type = "File Manager"}

\* A module button: _switch_current_workspace_module(module_name) of the
\* main window replaces the module of the current tab.
SwitchCurrentWorkspaceModule(module_name) ==
    /\ module_name = "File Manager" => Cardinality(FileManagers) < MaxFileManagers
    /\ IF \/ current_tab_id = NoTab
          \/ current_tab_id \notin DOMAIN workspaces
          \/ workspaces[current_tab_id].module_type = module_name
       THEN UNCHANGED workspaces
       ELSE workspaces' = [workspaces EXCEPT ![current_tab_id] = Workspace(module_name, None)]
    /\ UNCHANGED << workspace_tabs, current_tab_id, tab_counter, readerVars, fs >>

\* The tabs whose viewer was given a file.
Loaded == {t \in DOMAIN workspaces : workspaces[t].file # None}

\* A PDF is picked in the File Manager shown in the current tab:
\* _on_pdf_selected_from_file_manager(filepath).
OnPdfSelectedFromFileManager(f) ==
    /\ current_tab_id \in FileManagers
    /\ Cardinality(Loaded) < MaxLoads
    /\ IF Len(workspace_tabs) < TabLimit
       THEN AddWorkspaceThen("PDF Reader", f)
       ELSE /\ workspaces' = [workspaces EXCEPT ![current_tab_id] = Workspace("PDF Reader", f)]
            /\ UNCHANGED << workspace_tabs, current_tab_id, tab_counter >>
    /\ UNCHANGED << readerVars, fs >>

-----------------------------------------------------------------------------
(* Initial state: PDFReader.__init__ *)

Constructed ==
    /\ doc = NoDoc
    /\ current_page = 0
    /\ total_pages = 0
    /\ zoom_factor = DefaultZoom
    /\ page_images = EmptyMap
    /\ page_positions = EmptyMap
    /\ links_on_page = EmptyMap
    /\ pending_filepath = None
    /\ password_attempt_count = 0
    /\ prompt = FALSE
    /\ scrollregion = NoRegion
    /\ ytop = 0
    /\ canvas = [w |-> 1, h |-> 1]
    /\ zoom_input = << >>
    /\ page_label = << >>
    /\ loads = 0
    /\ running_y = 0
    /\ last = [op |-> "init", pass |-> "none", arg |-> NoRequest, dialog |-> None,
               wrongs |-> 0, file |-> None, accepted |-> FALSE]
    /\ TabsConstructed

\* History of the operation that just ran: its name, how its layout pass
\* ended, the number a zoom entry asked for, the error dialog it raised,
\* the number of passwords refused in a row since the prompt opened, the
\* file load_pdf was called with and whether authenticate() accepted the
\* password submitted.
DidAuth(op, pass, dialog, wrongs, file, accepted) ==
    last' = [op |-> op, pass |-> pass, arg |-> NoRequest, dialog |-> dialog,
             wrongs |-> wrongs, file |-> file, accepted |-> accepted]

Did(op, pass, arg) ==
    last' = [op |-> op, pass |-> pass, arg |-> arg, dialog |-> None,
             wrongs |-> IF prompt THEN last.wrongs ELSE 0,
             file |-> None, accepted |-> FALSE]

-----------------------------------------------------------------------------
(* Zoom controller *)

ClampZoomValueNoUpper(v) == IF v < 50 THEN 50 ELSE v

\* "if zoom_value < 50 ... elif zoom_value > 300 ..."
ClampZoomValue(v) ==
    IF v < 50 THEN 50
    ELSE IF v > 300 THEN 300
    ELSE v

\* The body shared by _on_zoom_input_enter and _on_zoom_input_leave.
ZoomInput(op, t) ==
    LET parsed == ParseInt(t)
        z      == ClampZoomValue(parsed.val)
        r      == render_current_page(doc, total_pages, z,
                                      [Current EXCEPT !.zoom_input = t], canvas)
    IN  /\ ~prompt
        /\ IF parsed.ok
           THEN /\ zoom_factor' = z
                /\ Rendered(r)
                /\ ytop' = r.ytop
                /\ Did(op, r.pass, Requested(t))
           ELSE /\ zoom_input' = Str(ZoomPercent(zoom_factor))
                /\ UNCHANGED << zoom_factor, page_images, page_positions,
                                links_on_page, scrollregion, ytop, page_label,
                                running_y >>
                /\ Did(op, "none", Requested(t))
        /\ UNCHANGED << doc, current_page, total_pages, pending_filepath,
                        password_attempt_count, prompt, canvas, fs, tabVars, loads >>

OnZoomInputEnter(t) == ZoomInput("zoom_input_enter", t)

OnZoomInputLeave(t) == ZoomInput("zoom_input_leave", t)

\* Sets the zoom to z and re-renders (the tail of _zoom_in, _zoom_out and
\* _fit_to_width).
Rezoom(op, z) ==
    LET r == render_current_page(doc, total_pages, z, Current, canvas)
    IN  /\ zoom_factor' = z
        /\ Rendered(r)
        /\ ytop' = r.ytop
        /\ Did(op, r.pass, NoRequest)

Untouched(op) ==
    /\ UNCHANGED << zoom_factor, page_images, page_positions, links_on_page,
                    scrollregion, ytop, zoom_input, page_label, running_y >>
    /\ Did(op, "none", NoRequest)

ZoomInTargetUnclamped(z) == z + ZoomStep

ZoomInTarget(z) == Min2(z + ZoomStep, max_zoom)

ZoomIn ==
    /\ ~prompt
    /\ IF zoom_factor < max_zoom
       THEN Rezoom("zoom_in", ZoomInTarget(zoom_factor))
       ELSE Untouched("zoom_in")
    /\ UNCHANGED << doc, current_page, total_pages, pending_filepath,
                    password_attempt_count, prompt, canvas, fs, tabVars, loads >>

ZoomOutTargetUnclamped(z) == z - ZoomStep

ZoomOutTarget(z) == Max2(z - ZoomStep, min_zoom)

ZoomOut ==
    /\ ~prompt
    /\ IF zoom_factor > min_zoom
       THEN Rezoom("zoom_out", ZoomOutTarget(zoom_factor))
       ELSE Untouched("zoom_out")
    /\ UNCHANGED << doc, current_page, total_pages, pending_filepath,
                    password_attempt_count, prompt, canvas, fs, tabVars, loads >>

FitToWidth ==
    /\ ~prompt
    /\ IF doc # NoDoc
       THEN Rezoom("fit_to_width", DefaultZoom)
       ELSE Untouched("fit_to_width")
    /\ UNCHANGED << doc, current_page, total_pages, pending_filepath,
                    password_attempt_count, prompt, canvas, fs, tabVars, loads >>

-----------------------------------------------------------------------------
(* Canvas events *)

\* <Configure>: the widget has the size cv; re-render when a document with
\* pages is held.
OnCanvasConfigure(cv) ==
    LET r == render_current_page(doc, total_pages, zoom_factor, Current, cv)
    IN  /\ canvas' = cv
        /\ IF doc # NoDoc /\ total_pages > 0
           THEN /\ Rendered(r)
                /\ ytop' = IF r.sr.set THEN Confine(r.ytop, r.sr.h, cv.h) ELSE r.ytop
                /\ Did("configure", r.pass, NoRequest)
           ELSE /\ UNCHANGED << page_images, page_positions, links_on_page, scrollregion,
                                zoom_input, page_label, running_y >>
                /\ ytop' = IF scrollregion.set THEN Confine(ytop, scrollregion.h, cv.h) ELSE ytop
                /\ Did("configure", "none", NoRequest)
        /\ UNCHANGED << doc, current_page, total_pages, zoom_factor,
                        pending_filepath, password_attempt_count, prompt, fs, tabVars, loads >>

\* yview_scroll(+-scroll_amount, 'units'): a unit is a tenth of the window.
ScrollDelta(height) == (ScrollAmount * height) \div 10

Scrolled(dir) ==
    IF ~scrollregion.set THEN ytop
    ELSE Confine(ytop + dir * ScrollDelta(canvas.h), scrollregion.h, canvas.h)

\* <MouseWheel>: dir = -1 scrolls up (event.delta > 0), dir = 1 down.
OnCanvasMousewheel(dir) ==
    /\ ~prompt
    /\ IF doc = NoDoc
       THEN UNCHANGED << ytop, current_page, page_label >>
       ELSE /\ ytop' = Scrolled(dir)
            /\ current_page' = UpdatePageIndicator(Scrolled(dir))
            /\ page_label' = IF IndicatorReturnsEarly THEN page_label
                             ELSE Str(UpdatePageIndicator(Scrolled(dir)) + 1)
    /\ Did("mousewheel", "none", NoRequest)
    /\ UNCHANGED << doc, total_pages, zoom_factor, page_images, page_positions,
                    links_on_page, pending_filepath, password_attempt_count,
                    prompt, scrollregion, canvas, zoom_input, fs, tabVars, loads, running_y >>

\* <Button-1> on the rectangle of link l of the current page (the click
\* position is the choice of l). An external link opens the browser; an
\* internal link stores its target in current_page, re-renders and scrolls
\* to the top.
OnCanvasClick(l) ==
    LET r == render_current_page(doc, total_pages, zoom_factor,
                                 [Current EXCEPT !.current_page = l.page,
                                                 !.page_label = Str(l.page + 1)],
                                 canvas)
    IN  /\ ~prompt
        /\ current_page \in DOMAIN links_on_page
        /\ current_page \in DOMAIN page_positions
        /\ \E i \in 1..Len(links_on_page[current_page]) : links_on_page[current_page][i] = l
        /\ IF l.type = "internal"
           THEN /\ current_page' = l.page
                /\ Rendered(r)
                /\ ytop' = IF r.pass = "aborted" THEN r.ytop ELSE 0
                /\ Did("click", r.pass, NoRequest)
           ELSE /\ UNCHANGED << current_page, page_images, page_positions, links_on_page,
                                scrollregion, ytop, zoom_input, page_label, running_y >>
                /\ Did("click", "none", NoRequest)
        /\ UNCHANGED << doc, total_pages, zoom_factor, pending_filepath,
                        password_attempt_count, prompt, canvas, fs, tabVars, loads >>

-----------------------------------------------------------------------------
(* Page navigation: the page entry field and the Prev / Next buttons *)

\* canvas.yview_moveto(y_pos / total_height): the canvas shows row y_pos of
\* the scroll region at the top of the window, as far as the region
\* reaches (the view is confined to it).
MoveToUnconfined(y_pos) == y_pos

MoveTo(y_pos) == Confine(y_pos, scrollregion.h, canvas.h)

\* A variant that looks the page up by its 1-based number.
ScrollToPageOneBased(p) ==
    IF /\ p + 1 \in DOMAIN page_positions
       /\ scrollregion.set
       /\ scrollregion.h > canvas.h
       /\ canvas.h > 0
    THEN MoveTo(page_positions[p + 1])
    ELSE ytop

\* "Scroll to the position of the current page" (the block the four
\* handlers share): the scroll position after it, for current_page = p.
ScrollToPage(p) ==
    IF /\ p \in DOMAIN page_positions
       /\ scrollregion.set
       /\ scrollregion.h > canvas.h
       /\ canvas.h > 0
    THEN MoveTo(page_positions[p])
    ELSE ytop

\* "if page_value < 1 ... elif page_value > self.total_pages ..."
ClampPageValue(v) ==
    IF v < 1 THEN 1
    ELSE IF v > total_pages THEN total_pages
    ELSE v

\* The body shared by _on_page_input_enter and _on_page_input_leave.
PageInput(op, t) ==
    LET parsed == ParseInt(t)
        p      == ClampPageValue(parsed.val) - 1
    IN  /\ ~prompt
        /\ IF parsed.ok
           THEN /\ current_page' = p
                /\ ytop' = ScrollToPage(p)
                /\ page_label' = t
           ELSE /\ page_label' = Str(current_page + 1)
                /\ UNCHANGED << current_page, ytop >>
        /\ Did(op, "none", Requested(t))
        /\ UNCHANGED << doc, total_pages, zoom_factor, page_images, page_positions,
                        links_on_page, pending_filepath, password_attempt_count,
                        prompt, scrollregion, canvas, zoom_input, fs, tabVars, loads,
                        running_y >>

OnPageInputEnter(t) == PageInput("page_input_enter", t)

OnPageInputLeave(t) == PageInput("page_input_leave", t)

\* The tail of _next_page and _prev_page once current_page is p.
GoTo(op, p) ==
    /\ current_page' = p
    /\ ytop' = ScrollToPage(p)
    /\ page_label' = Str(p + 1)
    /\ Did(op, "none", NoRequest)

NextPage ==
    /\ ~prompt
    /\ IF current_page < total_pages - 1
       THEN GoTo("next_page", current_page + 1)
       ELSE /\ UNCHANGED << current_page, ytop, page_label >>
            /\ Did("next_page", "none", NoRequest)
    /\ UNCHANGED << doc, total_pages, zoom_factor, page_images, page_positions,
                    links_on_page, pending_filepath, password_attempt_count,
                    prompt, scrollregion, canvas, zoom_input, fs, tabVars, loads,
                    running_y >>

PrevPage ==
    /\ ~prompt
    /\ IF current_page > 0
       THEN GoTo("prev_page", current_page - 1)
       ELSE /\ UNCHANGED << current_page, ytop, page_label >>
            /\ Did("prev_page", "none", NoRequest)
    /\ UNCHANGED << doc, total_pages, zoom_factor, page_images, page_positions,
                    links_on_page, pending_filepath, password_attempt_count,
                    prompt, scrollregion, canvas, zoom_input, fs, tabVars, loads,
                    running_y >>

-----------------------------------------------------------------------------
(* Loading and the password flow *)

Handle(f, authenticated) == [file |-> f, auth |-> authenticated]

\* "Successfully opened": the statements load_pdf and
\* _try_open_with_password share, from total_pages = doc.page_count to
\* canvas.yview_moveto(0). r is the initial layout pass; when it raises the
\* scroll reset is not reached.
Install(d, r) ==
    /\ doc' = d
    /\ total_pages' = Len(fs[d.file].pages)
    /\ current_page' = 0
    /\ zoom_factor' = DefaultZoom
    /\ Rendered(r)
    /\ ytop' = IF r.pass = "aborted" THEN r.ytop ELSE 0

InitialPass(d) ==
    render_current_page(d, Len(fs[d.file].pages), DefaultZoom,
                        [Cleared EXCEPT !.zoom_input = Str(DefaultZoom),
                                        !.page_label = Str(1),
                                        !.current_page = 0],
                        canvas)

\* The password dialog is put up for file f (load_pdf, the three places
\* that set pending_filepath); the handle load_pdf held is closed.
AskPassword(f) ==
    /\ doc' = NoDoc
    /\ pending_filepath' = f
    /\ password_attempt_count' = 0
    /\ prompt' = TRUE
    /\ UNCHANGED << current_page, total_pages, zoom_factor, page_images,
                    page_positions, links_on_page, scrollregion, ytop,
                    zoom_input, page_label, running_y >>
    /\ DidAuth("load_pdf", "none", None, 0, f, FALSE)

\* load_pdf(filepath). fitz.open raises on an unreadable file; the retry
\* fitz.open(filepath, password="") raises as well (open takes no such
\* argument), so the dialog is shown for every file that fails to open.
LoadPdf(f) ==
    /\ ~prompt
    /\ loads < MaxLoads
    /\ IF fs[f].kind = "plain"
       THEN /\ Install(Handle(f, TRUE), InitialPass(Handle(f, TRUE)))
            /\ pending_filepath' = None
            /\ password_attempt_count' = 0
            /\ prompt' = FALSE
            /\ DidAuth("load_pdf", InitialPass(Handle(f, TRUE)).pass,
                       IF InitialPass(Handle(f, TRUE)).pass = "aborted" THEN "Error" ELSE None,
                       0, f, FALSE)
       ELSE AskPassword(f)
    /\ loads' = loads + 1
    /\ UNCHANGED << canvas, fs, tabVars >>

\* Variants of the except branch: one that compares with > instead of >=,
\* one that does not close the handle at the bound.
AttemptFailedOffByOne(cnt, d, pend) ==
    IF cnt + 1 > max_password_attempts
    THEN /\ doc' = NoDoc
         /\ pending_filepath' = None
         /\ password_attempt_count' = 0
         /\ prompt' = FALSE
    ELSE /\ doc' = d
         /\ pending_filepath' = pend
         /\ password_attempt_count' = cnt + 1
         /\ prompt' = TRUE

AttemptFailedKeepsHandle(cnt, d, pend) ==
    IF cnt + 1 >= max_password_attempts
    THEN /\ doc' = d
         /\ pending_filepath' = None
         /\ password_attempt_count' = 0
         /\ prompt' = FALSE
    ELSE /\ doc' = d
         /\ pending_filepath' = pend
         /\ password_attempt_count' = cnt + 1
         /\ prompt' = TRUE

\* The except branch of _try_open_with_password, entered with the attempt
\* counter at cnt, self.doc = d and pending_filepath = pend: count the
\* attempt, then either _close_tab_on_password_failure (the parent frame
\* has no _close_current_tab, so the reader is cleared) or the dialog again.
AttemptFailed(cnt, d, pend) ==
    IF cnt + 1 >= max_password_attempts
    THEN /\ doc' = NoDoc
         /\ pending_filepath' = None
         /\ password_attempt_count' = 0
         /\ prompt' = FALSE
    ELSE /\ doc' = d
         /\ pending_filepath' = pend
         /\ password_attempt_count' = cnt + 1
         /\ prompt' = TRUE

\* "self.password_attempt_count = 0" on success, and a variant without it.
AttemptsKept(cnt) == cnt

AttemptsAfterSuccess(cnt) == 0

\* show_password_dialog(self.password_attempt_count + 1, max): the attempt
\* number the open prompt displays ("Attempt n/20").
AttemptShown == password_attempt_count + 1

\* "remaining = self.max_password_attempts - self.password_attempt_count"
Remaining == max_password_attempts - password_attempt_count

\* show_error_dialog("Password Failed", ...) of
\* _close_tab_on_password_failure, raised by the attempt that reaches the
\* bound.
FailureDialog(cnt) == IF cnt + 1 >= max_password_attempts THEN "Password Failed" ELSE None

Authenticates(f, pw) == fs[f].kind = "encrypted" /\ pw = fs[f].password

\* The dialog returns a password: _try_open_with_password(password).
SubmitPassword(pw) ==
    /\ prompt
    /\ IF pending_filepath = None
       THEN /\ prompt' = FALSE
            /\ UNCHANGED << doc, current_page, total_pages, zoom_factor, page_images,
                            page_positions, links_on_page, pending_filepath,
                            password_attempt_count, scrollregion, ytop,
                            zoom_input, page_label, running_y >>
            /\ DidAuth("try_open", "none", None, 0, None, FALSE)
       ELSE IF fs[pending_filepath].kind # "encrypted"
       THEN /\ AttemptFailed(password_attempt_count, doc, pending_filepath)
            /\ UNCHANGED << current_page, total_pages, zoom_factor, page_images,
                            page_positions, links_on_page, scrollregion, ytop,
                            zoom_input, page_label, running_y >>
            /\ DidAuth("try_open", "none", FailureDialog(password_attempt_count),
                       last.wrongs + 1, None, FALSE)
       ELSE IF ~Authenticates(pending_filepath, pw)
       THEN /\ AttemptFailed(password_attempt_count, Handle(pending_filepath, FALSE), pending_filepath)
            /\ UNCHANGED << current_page, total_pages, zoom_factor, page_images,
                            page_positions, links_on_page, scrollregion, ytop,
                            zoom_input, page_label, running_y >>
            /\ DidAuth("try_open", "none", FailureDialog(password_attempt_count),
                       last.wrongs + 1, None, FALSE)
       ELSE LET d == Handle(pending_filepath, TRUE)
                r == InitialPass(d)
            IN  /\ total_pages' = Len(fs[d.file].pages)
                /\ current_page' = 0
                /\ zoom_factor' = DefaultZoom
                /\ Rendered(r)
                /\ ytop' = IF r.pass = "aborted" THEN r.ytop ELSE 0
                /\ IF r.pass = "aborted"
                   THEN AttemptFailed(0, d, None)
                   ELSE /\ doc' = d
                        /\ pending_filepath' = None
                        /\ password_attempt_count' = AttemptsAfterSuccess(password_attempt_count)
                        /\ prompt' = FALSE
                /\ DidAuth("try_open", r.pass, None,
                           IF r.pass = "aborted" THEN 0 ELSE last.wrongs, None, TRUE)
    /\ UNCHANGED << canvas, fs, tabVars, loads >>

\* The dialog is dismissed: _cancel_password_input.
CancelPassword ==
    /\ prompt
    /\ pending_filepath' = None
    /\ password_attempt_count' = 0
    /\ prompt' = FALSE
    /\ DidAuth("cancel", "none", None, last.wrongs, None, FALSE)
    /\ UNCHANGED << doc, current_page, total_pages, zoom_factor, page_images,
                    page_positions, links_on_page, scrollregion, ytop, canvas,
                    zoom_input, page_label, fs, tabVars, loads, running_y >>

-----------------------------------------------------------------------------
(* The session specification *)

SessionTexts == {<<"-", "4">>, <<"4", "4", "4">>}

SessionSizes == {[w |-> 40, h |-> 60]}

Directions == {-1, 1}

Init ==
    /\ Constructed
    /\ fs = Catalog

Next ==
    \/ \E f \in DOMAIN fs : LoadPdf(f)
    \/ \E pw \in Passwords : SubmitPassword(pw)
    \/ CancelPassword
    \/ \E t \in SessionTexts : OnZoomInputEnter(t)
    \/ \E t \in SessionTexts : OnZoomInputLeave(t)
    \/ ZoomIn
    \/ ZoomOut
    \/ FitToWidth
    \/ \E cv \in SessionSizes : OnCanvasConfigure(cv)

Spec == Init /\ [][Next]_vars

TypeOK ==
    /\ zoom_factor \in Int
    /\ current_page \in Int
    /\ total_pages \in Nat
    /\ prompt \in BOOLEAN
    /\ password_attempt_count \in 0..max_password_attempts

-----------------------------------------------------------------------------
(* The zoom entry specification: one plain file, every text up to        *)
(* MaxTextLen typed into the zoom field.                                  *)

EntryFiles == [f \in {"A"} |-> Catalog[f]]

InitEntry ==
    /\ Constructed
    /\ fs = EntryFiles

NextEntry ==
    \/ \E f \in DOMAIN fs : LoadPdf(f)
    \/ \E t \in Texts : OnZoomInputEnter(t)
    \/ \E t \in Texts : OnZoomInputLeave(t)

SpecEntry == InitEntry /\ [][NextEntry]_vars

-----------------------------------------------------------------------------
(* The layout specification: one plain file with any pages up to          *)
(* MaxPages, laid out at several zooms and window sizes.                  *)

LayoutFiles == [{"A"} -> {PlainFile(ps) : ps \in PageSeqs(MaxPages)}]

LayoutSizes == {[w |-> 25, h |-> 60], [w |-> 40, h |-> 60]}

InitLayout ==
    /\ Constructed
    /\ fs \in LayoutFiles

NextLayout ==
    \/ \E f \in DOMAIN fs : LoadPdf(f)
    \/ ZoomOut
    \/ \E cv \in LayoutSizes : OnCanvasConfigure(cv)

SpecLayout == InitLayout /\ [][NextLayout]_vars

-----------------------------------------------------------------------------
(* The viewport specification: the same files at zoom 1.0, scrolled with  *)
(* the mouse wheel in a window that is either very low or ordinary.       *)

ViewportSizes == {[w |-> 40, h |-> 19], [w |-> 40, h |-> 60]}

NextViewport ==
    \/ \E f \in DOMAIN fs : LoadPdf(f)
    \/ \E cv \in ViewportSizes : OnCanvasConfigure(cv)
    \/ \E dir \in Directions : OnCanvasMousewheel(dir)

SpecViewport == InitLayout /\ [][NextViewport]_vars

-----------------------------------------------------------------------------
(* The opening specification: a plain file, an encrypted file, an         *)
(* encrypted file whose first page cannot be loaded and a file that       *)
(* cannot be read, opened and answered with passwords.                    *)

AuthFiles ==
    [f \in {"A", "E", "D", "X"} |->
        CASE f = "A" -> PlainFile(<<PageA, PageB>>)
          [] f = "E" -> Catalog["E"]
          [] f = "D" -> [kind |-> "encrypted", pages |-> <<PageNoAccess, PageA>>, password |-> "secret"]
          [] f = "X" -> CorruptFile]

InitAuth ==
    /\ Constructed
    /\ fs = AuthFiles

NextAuth ==
    \/ \E f \in DOMAIN fs : LoadPdf(f)
    \/ \E pw \in Passwords : SubmitPassword(pw)
    \/ CancelPassword

SpecAuth == InitAuth /\ [][NextAuth]_vars

-----------------------------------------------------------------------------
(* The entry field specification: one plain file, and a few texts typed   *)
(* into the zoom field and into the page field.                           *)

FieldTexts == {<<"x">>, <<"4", ".", "9">>, <<"2">>, <<"5", "7">>}

NextField ==
    \/ \E f \in DOMAIN fs : LoadPdf(f)
    \/ \E t \in FieldTexts : OnZoomInputEnter(t)
    \/ \E t \in FieldTexts : OnZoomInputLeave(t)
    \/ \E t \in FieldTexts : OnPageInputEnter(t)
    \/ \E t \in FieldTexts : OnPageInputLeave(t)

SpecField == InitEntry /\ [][NextField]_vars

-----------------------------------------------------------------------------
(* The navigation specification: the same files at zoom 1.0, in a window  *)
(* lower or higher than two pages, with pages chosen by number and with   *)
(* the Prev and Next buttons.                                             *)

NavigateSizes == {[w |-> 40, h |-> 60], [w |-> 40, h |-> 120]}

NavigateTexts == {<<"x">>, <<"-", "4">>, <<"1">>, <<"2">>, <<"3">>, <<"9">>}

NextNavigate ==
    \/ \E f \in DOMAIN fs : LoadPdf(f)
    \/ \E cv \in NavigateSizes : OnCanvasConfigure(cv)
    \/ \E t \in NavigateTexts : OnPageInputEnter(t)
    \/ \E t \in NavigateTexts : OnPageInputLeave(t)
    \/ NextPage
    \/ PrevPage

SpecNavigate == InitLayout /\ [][NextNavigate]_vars

-----------------------------------------------------------------------------
(* The re-layout specification: the plain files of the session, zoomed   *)
(* with the buttons, scrolled and resized.                                *)

RelayoutFiles == [f \in {"A", "B"} |-> Catalog[f]]

InitRelayout ==
    /\ Constructed
    /\ fs = RelayoutFiles

NextRelayout ==
    \/ \E f \in DOMAIN fs : LoadPdf(f)
    \/ ZoomIn
    \/ ZoomOut
    \/ \E cv \in ViewportSizes : OnCanvasConfigure(cv)
    \/ \E dir \in Directions : OnCanvasMousewheel(dir)

SpecRelayout == InitRelayout /\ [][NextRelayout]_vars

-----------------------------------------------------------------------------
(* The renderer specification: a plain file of one or two pages whose     *)
(* last page answers the four strategies in any of the sixteen ways, or   *)
(* cannot be loaded at all, rendered at several zooms.                    *)

RenderPages ==
    {[access |-> a, ok |-> <<o1, o2, o3, o4>>, w |-> 20, h |-> 10, links |-> << >>] :
        a \in BOOLEAN, o1 \in BOOLEAN, o2 \in BOOLEAN, o3 \in BOOLEAN, o4 \in BOOLEAN}

RenderFiles ==
    [{"A"} -> {PlainFile(<<pg>>) : pg \in RenderPages}
              \cup {PlainFile(<<PageB, pg>>) : pg \in RenderPages}]

InitRender ==
    /\ Constructed
    /\ fs \in RenderFiles

NextRender ==
    \/ \E f \in DOMAIN fs : LoadPdf(f)
    \/ ZoomIn
    \/ ZoomOut

SpecRender == InitRender /\ [][NextRender]_vars

-----------------------------------------------------------------------------
(* The link specification: a three-page file whose first page links to    *)
(* its last page and to a web address, and a two-page file without links, *)
(* opened one after the other, clicked, zoomed, resized and paged.        *)

InternalLink(target) == [type |-> "internal", page |-> target]

ExternalLink == [type |-> "external", page |-> 0]

PageLinked == [access |-> TRUE, ok |-> <<TRUE, TRUE, TRUE, TRUE>>, w |-> 20, h |-> 10,
               links |-> << InternalLink(2), ExternalLink >>]

LinkFiles ==
    [f \in {"A", "B"} |->
        IF f = "A" THEN PlainFile(<<PageLinked, PageA, PageB>>)
        ELSE PlainFile(<<PageA, PageB>>)]

LinkTargets == {InternalLink(2), ExternalLink}

InitLinks ==
    /\ Constructed
    /\ fs = LinkFiles

NextLinks ==
    \/ \E f \in DOMAIN fs : LoadPdf(f)
    \/ \E l \in LinkTargets : OnCanvasClick(l)
    \/ ZoomOut
    \/ \E cv \in LayoutSizes : OnCanvasConfigure(cv)
    \/ NextPage
    \/ PrevPage

SpecLinks == InitLinks /\ [][NextLinks]_vars

-----------------------------------------------------------------------------
(* The workspace specification: tabs added, selected, closed, turned into *)
(* a File Manager and opened from it.                                     *)

NextTabs ==
    \/ AddWorkspace
    \/ \E t \in TabIds : SwitchToWorkspace(t)
    \/ \E t \in TabIds : CloseWorkspace(t)
    \/ \E m \in ModuleTypes : SwitchCurrentWorkspaceModule(m)
    \/ \E f \in DOMAIN fs : OnPdfSelectedFromFileManager(f)

SpecTabs == InitEntry /\ [][NextTabs]_vars

-----------------------------------------------------------------------------
(* Properties *)

EntryOps == {"zoom_input_enter", "zoom_input_leave"}

ZoomOps == EntryOps \cup {"zoom_in", "zoom_out", "fit_to_width"}

Clamped(v, lo, hi) == Max2(lo, Min2(hi, v))

C2_ZoomWithinBounds == 50 <= zoom_factor /\ zoom_factor <= 300

C2_Witness ==
    /\ last.op = "zoom_in"
    /\ zoom_factor = 300
    /\ doc = Handle("E", TRUE)

\* C3: zoom_in and zoom_out move the zoom factor by exactly 0.2 when the
\* result stays inside [0.5, 3.0] and otherwise set it to the bound; at
\* the bound they leave it unchanged.
C3_ZoomStepsClampAtBounds ==
    [][/\ last'.op = "zoom_in"
          => zoom_factor' = (IF zoom_factor + 20 <= 300 THEN zoom_factor + 20 ELSE 300)
       /\ last'.op = "zoom_out"
          => zoom_factor' = (IF zoom_factor - 20 >= 50 THEN zoom_factor - 20 ELSE 50)]_vars

C3_Witness ==
    /\ last.op = "zoom_out"
    /\ last.pass = "none"
    /\ zoom_factor = 50

\* C4: every operation that changes the zoom factor leaves no bitmap or
\* offset cached from before (every cached bitmap is at the new zoom and
\* has its offset) and, when a document with pages is held, has run a
\* full layout pass.
C4_ZoomChangeRebuildsCache ==
    [][(last'.op \in ZoomOps /\ zoom_factor' # zoom_factor)
        => /\ \A p \in DOMAIN page_images' : page_images'[p].zoom = zoom_factor'
           /\ DOMAIN page_positions' = DOMAIN page_images'
           /\ (doc' # NoDoc /\ total_pages' > 0) => last'.pass = "completed"]_vars

\* C5: whenever no dialog is open, every cached bitmap was rendered from
\* the document the session holds, at the current zoom factor.
C5_CacheMatchesDocumentAndZoom ==
    ~prompt =>
        \A p \in DOMAIN page_images :
            /\ page_images[p].file = doc.file
            /\ page_images[p].zoom = zoom_factor

\* Page p of the held document can be rendered: it can be accessed and
\* one of the four strategies works.
Renders(p) ==
    /\ CanAccess(doc, p)
    /\ \E m \in 1..4 : PageOf(doc, p).ok[m]

RenderedPages == {p \in 0..(total_pages - 1) : Renders(p)}

\* C6: a completed layout pass leaves exactly one entry per page that
\* renders and none for the others, offsets strictly increasing with the
\* page index, and offset 10 for page 0 when it renders.
C6_LayoutEntries ==
    last.pass = "completed" =>
        /\ DOMAIN page_positions = RenderedPages
        /\ DOMAIN page_images = RenderedPages
        /\ \A p, q \in DOMAIN page_positions :
               p < q => page_positions[p] < page_positions[q]
        /\ 0 \in RenderedPages => page_positions[0] = 10

C6_Witness ==
    /\ last.pass = "completed"
    /\ total_pages = 3
    /\ DOMAIN page_positions = {0, 2}

RECURSIVE HeightsBefore(_)
HeightsBefore(p) ==
    IF p = 0 THEN 0
    ELSE HeightsBefore(p - 1)
         + (IF p - 1 \in DOMAIN page_images THEN page_images[p - 1].h + 30 ELSE 0)

\* C7: whenever a layout pass was started for a document with pages, a
\* page that fails is the only one skipped: every page that renders is
\* placed, at 10 plus the heights and gaps of the rendered pages before it,
\* whether or not a page before it failed.
C7_FailedPageOnlySkipped ==
    last.pass \in {"completed", "aborted"} =>
        \A p \in RenderedPages :
            /\ p \in DOMAIN page_positions
            /\ page_positions[p] = 10 + HeightsBefore(p)

\* The tracker ran in the last operation.
Tracked ==
    /\ last.op = "mousewheel"
    /\ doc # NoDoc
    /\ DOMAIN page_positions # {}

\* Twice the centre of the view: top of the view plus its bottom.
Center2 == ytop + Min2(ytop + canvas.h, scrollregion.h)

Reached == {p \in DOMAIN page_positions : 2 * page_positions[p] <= Center2}

C9_HighestPageAtOrAboveCenter ==
    Tracked => current_page = (IF Reached = {} THEN 0
                               ELSE CHOOSE p \in Reached : \A q \in Reached : q <= p)

C9_Witness ==
    /\ Tracked
    /\ Cardinality(Reached) >= 2
    /\ current_page \in Reached
    /\ \A q \in Reached : q <= current_page

\* C10: between two consecutive readings of the tracker over the same
\* layout, scrolling down never lowers the reported page and scrolling up
\* never raises it.
C10_TrackerMonotonic ==
    [][(Tracked /\ Tracked' /\ page_positions' = page_positions)
        => /\ ytop' > ytop => current_page' >= current_page
           /\ ytop' < ytop => current_page' <= current_page]_vars

C10_Witness ==
    /\ Tracked
    /\ ytop > 0
    /\ current_page > 0

PageEntryOps == {"page_input_enter", "page_input_leave"}

\* The step is a scroll_to_page: a page entry that int() accepts, or a
\* Prev / Next press that changes the page.
Navigated ==
    \/ last'.op \in PageEntryOps /\ ~last'.arg.nan /\ last'.arg.integer
    \/ last'.op \in {"next_page", "prev_page"} /\ current_page' # current_page

\* The page the tracker reports at scroll position y.
TrackerAt(y) == PageAtViewport(page_positions, ViewCenter2(y, scrollregion.h, canvas.h))

HalfViewportClear(p) ==
    /\ \A q \in DOMAIN page_positions :
           q > p => 2 * page_positions[q] > 2 * page_positions[p] + canvas.h
    /\ 2 * scrollregion.h > 2 * page_positions[p] + canvas.h

C12_ScrollFraction ==
    [][Navigated =>
        IF scrollregion.h <= canvas.h THEN ytop' = ytop
        ELSE current_page' \in DOMAIN page_positions
                => /\ ytop' = page_positions[current_page']
                   /\ 0 <= page_positions[current_page']
                   /\ page_positions[current_page'] <= scrollregion.h]_vars

\* C12, amended: scroll_to_page(p) asks for the fraction offset[p] /
\* total_height, a fraction in [0, 1], and the view comes to rest at
\* offset[p] or, when less than a viewport of content is left below it, at
\* total_height - viewport_height; the scroll position is unchanged when
\* the layout is not higher than the viewport or p has no layout entry.
C12_ScrollFractionConfined ==
    [][Navigated =>
        IF scrollregion.h <= canvas.h \/ current_page' \notin DOMAIN page_positions
        THEN ytop' = ytop
        ELSE /\ ytop' = Min2(page_positions[current_page'], scrollregion.h - canvas.h)
             /\ 0 <= page_positions[current_page']
             /\ page_positions[current_page'] <= scrollregion.h]_vars

C12_Witness ==
    /\ last.op = "next_page"
    /\ current_page = 1
    /\ current_page \in DOMAIN page_positions
    /\ scrollregion.h > canvas.h
    /\ ytop = page_positions[1]

\* The step submits a password that authenticate() accepts.
CorrectSubmitted == last'.op = "try_open" /\ last'.accepted

\* The session holds the authenticated document f and no prompt is open.
AuthenticatedAs(f) == doc = Handle(f, TRUE) /\ ~prompt /\ pending_filepath = None

Refused(n) == last.op = "try_open" /\ ~last.accepted /\ last.wrongs = n

\* The flow is in Failed(exhausted): the prompt is closed after the
\* "Password Failed" error and nothing is pending.
Exhausted == ~prompt /\ pending_filepath = None /\ last.dialog = "Password Failed"

C15_ExhaustionTearsDown ==
    [][(/\ last'.op = "try_open"
        /\ ~last'.accepted
        /\ pending_filepath # None
        /\ password_attempt_count + 1 >= max_password_attempts)
        => /\ last'.dialog = "Password Failed"
           /\ doc' = NoDoc
           /\ pending_filepath' = None
           /\ ~prompt']_vars

C15_Witness ==
    /\ Refused(max_password_attempts)
    /\ last.dialog = "Password Failed"
    /\ doc = NoDoc
    /\ pending_filepath = None
    /\ ~prompt

\* C16: cancelling the prompt closes it, discards the pending file, does
\* not raise the attempt counter and leaves the session without an
\* authenticated document (Unauthenticated).
C16_CancelReturnsToUnauthenticated ==
    [][last'.op = "cancel"
        => /\ ~prompt'
           /\ pending_filepath' = None
           /\ password_attempt_count' <= password_attempt_count
           /\ (doc' = NoDoc \/ ~doc'.auth)]_vars

\* C17: load_pdf of a file that cannot be read reports the error and
\* leaves the session as it was: no prompt, the same document with its
\* page count, cache and layout.
C17_OpenErrorKeepsPriorState ==
    [][(last'.op = "load_pdf" /\ fs[last'.file].kind = "corrupt")
        => /\ last'.dialog = "Error"
           /\ ~prompt'
           /\ UNCHANGED << doc, total_pages, page_images, page_positions,
                           scrollregion >>]_vars

\* C18: a zoom or page entry that is not a number puts the last valid
\* value back into its field (the zoom in force as a percentage, the
\* current page number), changes neither the zoom factor nor the current
\* page, cache, layout or scroll position, runs no layout pass and raises
\* no dialog.
C18_NonNumericEntryReverts ==
    [][(last'.op \in EntryOps \cup PageEntryOps /\ last'.arg.nan)
        => /\ last'.op \in EntryOps => zoom_input' = Str(zoom_factor)
           /\ last'.op \in PageEntryOps => page_label' = Str(current_page + 1)
           /\ UNCHANGED << zoom_factor, current_page, page_images, page_positions,
                           scrollregion, ytop >>
           /\ last'.pass = "none"
           /\ last'.dialog = None]_vars

\* C19: after every completed layout pass the height of the scroll region
\* (total_height) equals the final running y of the pass, the pass in
\* which no page renders included.
C19_TotalHeightIsRunningY ==
    last.pass = "completed" => scrollregion.h = running_y

\* C19 (amended): after a completed layout pass the height of the scroll
\* region equals the final running y when at least one page rendered; when
\* no page rendered it is 0 while the running y is still the top margin.
C19_TotalHeightIsRunningYWhenRendered ==
    last.pass = "completed" =>
        IF DOMAIN page_images # {}
        THEN scrollregion.h = running_y
        ELSE scrollregion.h = 0 /\ running_y = TopMargin

\* A completed pass over a document of which some pages rendered and some
\* did not.
C19_Witness ==
    /\ last.pass = "completed"
    /\ DOMAIN page_images # {}
    /\ Cardinality(DOMAIN page_images) < total_pages
    /\ scrollregion.h = running_y
    /\ running_y > TopMargin

\* C20: after every completed layout pass the width of the scroll region
\* equals the greatest width among the rendered pages, or the viewport's
\* width when no page rendered.
C20_TotalWidthIsMaxPageWidth ==
    last.pass = "completed" =>
        scrollregion.w =
            IF DOMAIN page_images = {} THEN CanvasWidth(canvas)
            ELSE CHOOSE w \in {page_images[p].w : p \in DOMAIN page_images} :
                    \A q \in DOMAIN page_images : page_images[q].w <= w

\* The layout the session holds was made by a completed pass over the
\* readable document it holds at the zoom in force: either the last
\* operation was such a pass, or the cache holds bitmaps of this document
\* at this zoom.
LaidOutHere ==
    /\ doc.auth
    /\ \/ last.pass = "completed"
       \/ /\ DOMAIN page_images # {}
          /\ \A p \in DOMAIN page_images :
                page_images[p].file = doc.file /\ page_images[p].zoom = zoom_factor

\* C21: a completed layout pass over the same document at the same zoom as
\* the layout already held (after a resize, at any scroll position) leaves
\* the page offsets and the total height as they were.
C21_LayoutIdempotent ==
    [][(last'.pass = "completed" /\ doc' = doc /\ zoom_factor' = zoom_factor /\ LaidOutHere)
        => page_positions' = page_positions /\ scrollregion'.h = scrollregion.h]_vars

\* A document with laid-out pages, scrolled away from the top, has just
\* been laid out again by a resize to a different window size.
C21_Witness ==
    /\ last.op = "configure"
    /\ last.pass = "completed"
    /\ Cardinality(DOMAIN page_positions) >= 2
    /\ ytop > 0
    /\ canvas.h = 60
    /\ zoom_factor # DefaultZoom

\* Pages i < j are both laid out and no page between them is.
Adjacent(i, j) ==
    /\ i \in DOMAIN page_positions
    /\ j \in DOMAIN page_positions
    /\ i < j
    /\ \A k \in DOMAIN page_positions : ~(i < k /\ k < j)

\* C22: in every state, for any two laid-out pages i < j with no laid-out
\* page between them, offset[j] = offset[i] + height[i] + 30.
C22_AdjacentOffsets ==
    /\ DOMAIN page_positions = DOMAIN page_images
    /\ \A i, j \in DOMAIN page_positions :
          Adjacent(i, j) => page_positions[j] = page_positions[i] + page_images[i].h + 30

\* A completed pass at a zoom other than 1.0 over three pages of which the
\* middle one failed, so that the two laid-out pages are not consecutive.
C22_Witness ==
    /\ last.pass = "completed"
    /\ zoom_factor < DefaultZoom
    /\ Adjacent(0, 2)
    /\ page_images[0].h # page_images[2].h

\* The strategies that work for page p of the document held, at the zoom
\* in force.
Working(p) == {m \in 1..4 : StrategyWorks(PageOf(doc, p), m, zoom_factor)}

\* C23: for every page of the document held, render_page_with_fallback
\* reports failure exactly when the page cannot be accessed or none of the
\* four strategies works; otherwise it returns the bitmap of the first
\* strategy, in the order 1 to 4, that works. After a completed layout
\* pass the cache holds exactly these bitmaps.
C23_FirstWorkingStrategy ==
    doc # NoDoc =>
        \A p \in 0..(Len(fs[doc.file].pages) - 1) :
            LET r == render_page_with_fallback(doc, p, zoom_factor)
            IN  /\ r.method = 0 <=> (~CanAccess(doc, p) \/ Working(p) = {})
                /\ r.method = 0 => r.img = NoImage
                /\ r.method # 0 =>
                      /\ r.method \in Working(p)
                      /\ \A m \in Working(p) : r.method <= m
                      /\ r.img = Bitmap(doc, PageOf(doc, p), r.method, zoom_factor)
                /\ last.pass = "completed" =>
                      /\ p \in DOMAIN page_images <=> r.method # 0
                      /\ p \in DOMAIN page_images => page_images[p] = r.img

\* A completed pass over a document whose last page fails the first two
\* strategies and is rendered by the third, although the fourth would
\* work as well.
C23_Witness ==
    /\ last.pass = "completed"
    /\ total_pages = 2
    /\ Working(1) = {3, 4}
    /\ 1 \in DOMAIN page_images
    /\ render_page_with_fallback(doc, 1, zoom_factor).method = 3
    /\ zoom_factor > DefaultZoom

\* The step is a submission whose passphrase authenticate() accepted and
\* whose initial layout pass then raised.
FailedAfterAccept ==
    last'.op = "try_open" /\ last'.accepted /\ last'.pass = "aborted"

\* C24: a failure after the passphrase was accepted consumes one attempt:
\* the attempt counter afterwards is its value before the submission plus
\* one and the prompt stays open for the same pending file, unless that
\* reaches the bound, in which case the flow fails as exhausted.
C24_PostAuthFailureCountsAttempt ==
    [][FailedAfterAccept =>
          IF password_attempt_count + 1 >= max_password_attempts
          THEN ~prompt' /\ pending_filepath' = None
          ELSE /\ password_attempt_count' = password_attempt_count + 1
               /\ prompt'
               /\ pending_filepath' = pending_filepath]_vars

\* C25: in every state in which the session holds a document, every entry
\* of links_on_page is the link list of that page of that document (the
\* index is rebuilt when a different document is loaded).
C25_LinkIndexOfCurrentDocument ==
    doc # NoDoc =>
        \A p \in DOMAIN links_on_page :
            /\ p < Len(fs[doc.file].pages)
            /\ links_on_page[p] = PageOf(doc, p).links

\* C26: in every state the current page is a valid page index:
\* 0 <= current_page, and current_page < total_pages whenever the document
\* has pages.
C26_CurrentPageValid ==
    /\ 0 <= current_page
    /\ total_pages > 0 => current_page < total_pages

\* C27: the session holds a document handle only after a successful open
\* or authentication: in every state, and in particular while the password
\* prompt is open and after it was cancelled, self.doc is either None or a
\* handle that is readable (not encrypted, or authenticated).
C27_NoUnauthenticatedHandle ==
    doc # NoDoc => doc.auth

\* C28: every layout pass that runs (completes or raises) runs over a
\* handle that is open and readable, with that document's own page count.
C28_LayoutOnlyOverReadableDocument ==
    last.pass \in {"completed", "aborted"} =>
        /\ doc # NoDoc
        /\ doc.auth
        /\ total_pages = Len(fs[doc.file].pages)

\* C29: the password flow ends within the bound: a submission whose
\* passphrase is accepted (Authenticated), or which is the 20th since the
\* prompt opened (Failed), closes the prompt, which is then not shown
\* again for this file.
C29_PromptEndsWithinBound ==
    [][(/\ last'.op = "try_open"
        /\ prompt
        /\ last'.accepted \/ last.wrongs + 1 >= max_password_attempts)
        => ~prompt']_vars

OpenTabs == {workspace_tabs[i] : i \in 1..Len(workspace_tabs)}

\* The tab ids are unique, the tab list holds exactly the keys of the
\* workspace table, and current_tab_id is None exactly when no tab is open
\* and otherwise names an open tab.
TabsConsistent ==
    /\ \A i, j \in 1..Len(workspace_tabs) : i # j => workspace_tabs[i] # workspace_tabs[j]
    /\ OpenTabs = DOMAIN workspaces
    /\ current_tab_id = NoTab <=> Len(workspace_tabs) = 0
    /\ current_tab_id # NoTab => current_tab_id \in DOMAIN workspaces

\* The step closes the tab that is current.
ClosesCurrentTab ==
    /\ current_tab_id \in DOMAIN workspaces
    /\ current_tab_id \notin DOMAIN workspaces'

\* C30: in every state of the tab manager the tabs are consistent, and a
\* step that closes the current tab selects the first remaining tab (or
\* none when it was the last).
C30_TabsConsistent ==
    /\ []TabsConsistent
    /\ [][ClosesCurrentTab =>
            current_tab_id' = IF Len(workspace_tabs') = 0 THEN NoTab ELSE workspace_tabs'[1]]_vars

\* The first tab has been closed while it was not the only one, a tab
\* opened from the File Manager holds a file, and the tab selected is the
\* first of those left and not the one created last.
C30_Witness ==
    /\ 0 \notin DOMAIN workspaces
    /\ Len(workspace_tabs) >= 3
    /\ \E t \in DOMAIN workspaces : workspaces[t].file # None
    /\ current_tab_id = workspace_tabs[1]
    /\ FileManagers # {}

====
